---------------------------- MODULE Spec2Model ----------------------------
(***************************************************************************)
(* Model of STM32BootManager.h: the boot manager's erase-before-write      *)
(* state machine, its write cursor, the table-driven CRC-32 over the       *)
(* application region and the jump to the application.                     *)
(*                                                                         *)
(* The manager's fields are m_operations, m_was_erased, m_write_pointer.   *)
(* The capability table (BootOperations) is external: each call into it    *)
(* is appended to `calls`, and the values its erase_app and write return   *)
(* are inputs of the action that makes the call.                           *)
(***************************************************************************)
EXTENDS Integers, Sequences, FiniteSets, TLC

(* ------------------------------ constants ------------------------------ *)

START_ADDRESS == 134242304
END_ADDRESS == 134348800
PAGE_SIZE == 2048
METADATA_SIZE == 4

\* uint32_t, and size_t on the 32-bit target, are held as two 16-bit halves
\* [hi, lo]; Half is 2^16, which is also the range of read's uint16_t counter
Half == 2 ^ 16

U32(n) == [hi |-> n \div Half, lo |-> n % Half]

Zero32 == U32(0)

\* a + b on uint32_t (modulo 2^32)
Add32(a, b) ==
    [hi |-> (a.hi + b.hi + ((a.lo + b.lo) \div Half)) % Half,
     lo |-> (a.lo + b.lo) % Half]

\* a - b on uint32_t (modulo 2^32)
Sub32(a, b) ==
    [hi |-> (a.hi - b.hi - (IF a.lo < b.lo THEN 1 ELSE 0)) % Half,
     lo |-> (a.lo - b.lo) % Half]

\* a < b on uint32_t
Less32(a, b) == a.hi < b.hi \/ (a.hi = b.hi /\ a.lo < b.lo)

\* const uint32_t CRC32_POLYNOMIALL = 0xEDB88320
CRC32_POLYNOMIALL == [hi |-> 60856, lo |-> 33568]

(* -------------------------------- bounds ------------------------------- *)

\* number of public calls (constructions included) in one behaviour
MaxOps == 3
\* number of flash bytes modelled from START_ADDRESS on; calculate_crc scans
\* the modelled region as the source scans [START_ADDRESS, END_ADDRESS)
FlashLen == 13

(* ------------------------------- inputs -------------------------------- *)

NULL == "nullptr"
\* two capability tables a caller may bind
Tables == {"opsA", "opsB"}
Bindings == Tables \cup {NULL}
\* source buffers handed to write / write_continously
Buffers == {"bufA", "bufB"}
\* sizes handed to write / write_continously: a word, a double word, the
\* whole application region, and the distance from START_ADDRESS to 2^32
WriteSizes == {U32(4), U32(8), U32(END_ADDRESS - START_ADDRESS),
               Sub32(Zero32, U32(START_ADDRESS))}
WriteStarts == {U32(START_ADDRESS), U32(START_ADDRESS + 8)}
\* sizes handed to read: none, one word, one and a half, two, and 2^16 words
ReadSizes == {U32(0), U32(4), U32(6), U32(8), [hi |-> 4, lo |-> 0]}
ReadAddrs == {U32(START_ADDRESS), U32(START_ADDRESS + 4)}

VARIABLES
    m_operations,     \* BootOperations* m_operations
    m_was_erased,     \* bool m_was_erased
    m_write_pointer,  \* uint32_t m_write_pointer
    have_table,       \* static bool have_table (calculate_crc)
    table,            \* static uint32_t table[256] (calculate_crc)
    flash,            \* bytes of the application region, by offset
    pc,               \* where control is: "idle", "jumped" or "hung"
    last,             \* the latest public call: name, arguments, result,
                      \* and the manager's fields when it was made
    calls,            \* what the latest public call did outside the
                      \* manager: capability calls and memory accesses
    hist,             \* per instance: erase_app calls, successful ones,
                      \* write / write_continously calls, and the bytes
                      \* write_continously reported written
    nops              \* public calls made so far

vars == <<m_operations, m_was_erased, m_write_pointer, have_table, table,
          flash, pc, last, calls, hist, nops>>

(* ------------------------- capability call log ------------------------- *)

\* one entry of `calls`: `by` is the table called (or "cpu" for a memory
\* access or the branch made by the manager itself)
Call(by, fn, addr, data, size, ret) ==
    [by |-> by, fn |-> fn, addr |-> addr, data |-> data, size |-> size,
     ret |-> ret]

Plain(by, fn) == Call(by, fn, Zero32, "none", Zero32, TRUE)

Fns(cs) == [i \in 1..Len(cs) |-> cs[i].fn]

Count(cs, fn) == Cardinality({i \in 1..Len(cs) : cs[i].fn = fn})

(* ----------------------------- bit helpers ----------------------------- *)

\* a ^ b on one half (or one byte)
RECURSIVE Xor(_, _)
Xor(a, b) ==
    IF a = 0 THEN b
    ELSE IF b = 0 THEN a
    ELSE (((a % 2) + (b % 2)) % 2) + 2 * Xor(a \div 2, b \div 2)

\* a ^ b on uint32_t
Xor32(a, b) == [hi |-> Xor(a.hi, b.hi), lo |-> Xor(a.lo, b.lo)]

\* ~x on uint32_t
Not32(x) == [hi |-> (Half - 1) - x.hi, lo |-> (Half - 1) - x.lo]

\* x >> 1 and x >> 8 on uint32_t
Shr1(x) == [hi |-> x.hi \div 2, lo |-> (x.lo \div 2) + (x.hi % 2) * (Half \div 2)]
Shr8(x) == [hi |-> x.hi \div 256, lo |-> (x.lo \div 256) + (x.hi % 256) * 256]

\* size / 4 on size_t
Div4(x) == [hi |-> x.hi \div 4, lo |-> (x.lo \div 4) + (x.hi % 4) * (Half \div 4)]

(* ------------------------------ the manager ---------------------------- *)

\* what a method leaves behind when it makes no capability call
NoCalls == << >>

\* erase_app without `if(ret) m_was_erased = true;`
erase_app_forgets(ops, erased, eraseOk) ==
    IF ops = NULL
    THEN [ret |-> FALSE, was_erased |-> erased, calls |-> NoCalls]
    ELSE [ret |-> eraseOk,
          was_erased |-> erased,
          calls |-> << Plain(ops, "unlock"),
                       Call(ops, "erase_app", Zero32, "none", Zero32, eraseOk),
                       Plain(ops, "lock") >>]

\* erase_app setting m_was_erased whatever the capability returned
erase_app_marks(ops, erased, eraseOk) ==
    IF ops = NULL
    THEN [ret |-> FALSE, was_erased |-> erased, calls |-> NoCalls]
    ELSE [ret |-> eraseOk,
          was_erased |-> TRUE,
          calls |-> << Plain(ops, "unlock"),
                       Call(ops, "erase_app", Zero32, "none", Zero32, eraseOk),
                       Plain(ops, "lock") >>]

\* bool erase_app(): the protected method
erase_app(ops, erased, eraseOk) ==
    IF ops = NULL
    THEN [ret |-> FALSE, was_erased |-> erased, calls |-> NoCalls]
    ELSE [ret |-> eraseOk,
          was_erased |-> IF eraseOk THEN TRUE ELSE erased,
          calls |-> << Plain(ops, "unlock"),
                       Call(ops, "erase_app", Zero32, "none", Zero32, eraseOk),
                       Plain(ops, "lock") >>]

\* the erase made without looking at m_was_erased
erase_first_unconditional(ops, erased, eraseOk) ==
    erase_app(ops, erased, eraseOk)

\* `if(!m_was_erased) if(!erase_app()) return false;`: the erase both write
\* and write_continously start with; ret is FALSE when the method returns
\* false here
erase_first(ops, erased, eraseOk) ==
    IF ~erased
    THEN erase_app(ops, erased, eraseOk)
    ELSE [ret |-> TRUE, was_erased |-> erased, calls |-> NoCalls]

\* write returning at once, without lock, when the capability's write fails
write_leaves_unlocked(ops, erased, start, data, size, eraseOk, writeOk) ==
    IF ops = NULL
    THEN [ret |-> FALSE, was_erased |-> erased, calls |-> NoCalls]
    ELSE LET e == erase_first(ops, erased, eraseOk) IN
         IF ~e.ret
         THEN [ret |-> FALSE, was_erased |-> e.was_erased, calls |-> e.calls]
         ELSE [ret |-> writeOk,
               was_erased |-> e.was_erased,
               calls |-> e.calls \o
                         << Plain(ops, "unlock"),
                            Call(ops, "write", start, data, size, writeOk) >>
                         \o (IF writeOk THEN << Plain(ops, "lock") >>
                             ELSE << >>)]

\* bool write(const uint32_t& start, uint8_t* data, const size_t& size)
write(ops, erased, start, data, size, eraseOk, writeOk) ==
    IF ops = NULL
    THEN [ret |-> FALSE, was_erased |-> erased, calls |-> NoCalls]
    ELSE LET e == erase_first(ops, erased, eraseOk) IN
         IF ~e.ret
         THEN [ret |-> FALSE, was_erased |-> e.was_erased, calls |-> e.calls]
         ELSE [ret |-> writeOk,
               was_erased |-> e.was_erased,
               calls |-> e.calls \o
                         << Plain(ops, "unlock"),
                            Call(ops, "write", start, data, size, writeOk),
                            Plain(ops, "lock") >>]

\* `m_write_pointer += size;` without `if(ret)`
advance_always(ptr, size, ret) == Add32(ptr, size)

\* `if(ret) m_write_pointer += size;` on a uint32_t
advance(ptr, size, ret) ==
    IF ret THEN Add32(ptr, size) ELSE ptr

\* write_continously refusing a chunk that ends beyond END_ADDRESS
write_continously_bounded(ops, erased, ptr, buffer, size, eraseOk, writeOk) ==
    IF Less32(U32(END_ADDRESS), Add32(ptr, size))
    THEN [ret |-> FALSE, was_erased |-> erased, ptr |-> ptr, calls |-> NoCalls]
    ELSE LET w == write(ops, erased, ptr, buffer, size, eraseOk, writeOk)
         IN [ret |-> w.ret,
             was_erased |-> w.was_erased,
             ptr |-> advance(ptr, size, w.ret),
             calls |-> w.calls]

\* bool write_continously(uint8_t* buffer, const size_t& size)
write_continously(ops, erased, ptr, buffer, size, eraseOk, writeOk) ==
    LET e == erase_first(ops, erased, eraseOk) IN
    IF ~e.ret
    THEN [ret |-> FALSE, was_erased |-> e.was_erased, ptr |-> ptr,
          calls |-> e.calls]
    ELSE LET w == write(ops, e.was_erased, ptr, buffer, size, eraseOk, writeOk)
         IN [ret |-> w.ret,
             was_erased |-> w.was_erased,
             ptr |-> advance(ptr, size, w.ret),
             calls |-> e.calls \o w.calls]

\* the loop of read: `for(uint16_t i = 0; i < size / 4; ++i)` leaves the
\* loop only if the 16-bit counter can reach size / 4
read_loop_ends(size) == Div4(size).hi = 0

\* read without `if(m_operations == nullptr) return false;`
read_unguarded(ops, address, size) ==
    IF read_loop_ends(size)
    THEN [ret |-> TRUE, returned |-> TRUE,
          calls |-> << Plain(ops, "unlock"),
                       Call("cpu", "copy", address, "dst",
                            U32(4 * Div4(size).lo), TRUE),
                       Plain(ops, "lock") >>]
    ELSE [ret |-> FALSE, returned |-> FALSE,
          calls |-> << Plain(ops, "unlock"),
                       Call("cpu", "copy", address, "dst",
                            [hi |-> 4, lo |-> 0], TRUE) >>]

\* bool read(const uint32_t& address, uint8_t* dst, const size_t& size);
\* returned is FALSE when the call never comes back
read(ops, address, size) ==
    IF ops = NULL
    THEN [ret |-> FALSE, returned |-> TRUE, calls |-> NoCalls]
    ELSE IF read_loop_ends(size)
         THEN [ret |-> TRUE, returned |-> TRUE,
               calls |-> << Plain(ops, "unlock"),
                            Call("cpu", "copy", address, "dst",
                                 U32(4 * Div4(size).lo), TRUE),
                            Plain(ops, "lock") >>]
         ELSE [ret |-> FALSE, returned |-> FALSE,
               calls |-> << Plain(ops, "unlock"),
                            Call("cpu", "copy", address, "dst",
                                 [hi |-> 4, lo |-> 0], TRUE) >>]

\* the byte at an address of the application region
MemByte(mem, addr) == mem[Sub32(addr, U32(START_ADDRESS)).lo]

\* *((uint32_t *)addr) on the little-endian target
MemWord(mem, addr) ==
    [hi |-> MemByte(mem, Add32(addr, U32(2)))
            + 256 * MemByte(mem, Add32(addr, U32(3))),
     lo |-> MemByte(mem, addr) + 256 * MemByte(mem, Add32(addr, U32(1)))]

\* jump_to_app without `SysJump();`
jump_to_app_returns(ops, mem) ==
    IF ops = NULL
    THEN [returned |-> TRUE, calls |-> NoCalls]
    ELSE [returned |-> TRUE,
          calls |-> << Plain(ops, "deinit_peripherals"),
                       Call("cpu", "load", U32(START_ADDRESS + 4), "none",
                            U32(4), TRUE),
                       Plain(ops, "deinit_systick") >>]

\* jump_to_app loading the entry address after deinit_systick
jump_to_app_late_load(ops, mem) ==
    IF ops = NULL
    THEN [returned |-> TRUE, calls |-> NoCalls]
    ELSE [returned |-> FALSE,
          calls |-> << Plain(ops, "deinit_peripherals"),
                       Plain(ops, "deinit_systick"),
                       Call("cpu", "load", U32(START_ADDRESS + 4), "none",
                            U32(4), TRUE),
                       Call("cpu", "branch",
                            MemWord(mem, U32(START_ADDRESS + 4)),
                            "none", Zero32, TRUE) >>]

\* void jump_to_app(); returned is FALSE when control went to the application
jump_to_app(ops, mem) ==
    IF ops = NULL
    THEN [returned |-> TRUE, calls |-> NoCalls]
    ELSE [returned |-> FALSE,
          calls |-> << Plain(ops, "deinit_peripherals"),
                       Call("cpu", "load", U32(START_ADDRESS + 4), "none",
                            U32(4), TRUE),
                       Plain(ops, "deinit_systick"),
                       Call("cpu", "branch",
                            MemWord(mem, U32(START_ADDRESS + 4)),
                            "none", Zero32, TRUE) >>]

(* -------------------------------- CRC-32 ------------------------------- *)

\* the inner loop of the table build: `for (int j = 0; j < 8; j++)` on rem
RECURSIVE table_rem(_, _)
table_rem(rem, j) ==
    IF j = 0 THEN rem
    ELSE table_rem(IF rem.lo % 2 = 1
                   THEN Xor32(Shr1(rem), CRC32_POLYNOMIALL)
                   ELSE Shr1(rem),
                   j - 1)

\* the table after `if (!have_table) { ... }`
build_table == [i \in 0..255 |-> table_rem(U32(i), 8)]

\* static uint32_t table[256] before the first call: zero-initialised
ZeroTable == [i \in 0..255 |-> Zero32]

\* the end of the modelled application region: stands for END_ADDRESS in
\* the scan of calculate_crc
RegionEnd == U32(START_ADDRESS + FlashLen)

\* len without `- METADATA_SIZE`
crc_len_whole == Sub32(RegionEnd, U32(START_ADDRESS))

\* uint32_t len = (END_ADDRESS - START_ADDRESS) - METADATA_SIZE
crc_len == Sub32(Sub32(RegionEnd, U32(START_ADDRESS)), U32(METADATA_SIZE))

\* the step without `^ *dp`
crc_step_blind(tbl, crc, byte) == Xor32(tbl[crc.lo % 256], Shr8(crc))

\* crc = table[(crc ^ *dp) & 0xFF] ^ (crc >> 8)
crc_step(tbl, crc, byte) == Xor32(tbl[Xor(crc.lo, byte) % 256], Shr8(crc))

\* while(len > 0){ ...; ++dp; --len; }
RECURSIVE crc_loop(_, _, _, _, _)
crc_loop(tbl, mem, crc, dp, len) ==
    IF Less32(Zero32, len)
    THEN crc_loop(tbl, mem, crc_step(tbl, crc, MemByte(mem, dp)),
                  Add32(dp, U32(1)), Sub32(len, U32(1)))
    ELSE crc

\* `crc = ~crc; ...loop...; return ~crc;` with crc = 0 at first
crc_scan(tbl, mem) ==
    Not32(crc_loop(tbl, mem, Not32(Zero32), U32(START_ADDRESS), crc_len))

\* uint32_t calculate_crc() const
calculate_crc(ops, have, tbl, mem) ==
    IF ops = NULL
    THEN [ret |-> Zero32, have_table |-> have, table |-> tbl,
          calls |-> NoCalls]
    ELSE LET t == IF ~have THEN build_table ELSE tbl IN
         [ret |-> crc_scan(t, mem),
          have_table |-> TRUE,
          table |-> t,
          calls |-> << Plain(ops, "unlock"),
                       Call("cpu", "scan", U32(START_ADDRESS), "none", crc_len, TRUE),
                       Plain(ops, "lock") >>]

(* ------------------------------ flash images --------------------------- *)

\* the ASCII bytes "123456789", repeated
CheckByte(i) == 49 + (i % 9)

Patterns == {"check", "zero", "erased"}

PatternByte(p, i) ==
    CASE p = "check" -> CheckByte(i)
      [] p = "zero" -> 0
      [] p = "erased" -> 255

Offsets == 0..(FlashLen - 1)

ByteVals == {0, 128, 255}

\* a pattern with one byte replaced
Image(p, pos, v) == [i \in Offsets |-> IF i = pos THEN v ELSE PatternByte(p, i)]

Images == {Image(p, pos, v) : p \in Patterns, pos \in Offsets, v \in ByteVals}

\* the image the state machine runs on: "123456789" with an erased tail
BootImage == [i \in Offsets |-> IF i < 9 THEN CheckByte(i) ELSE 255]

(* ------------------------------- actions ------------------------------- *)

\* accepted is a uint32_t sum, like the cursor it is compared with
\* eraser is the table whose erase_app returned true
NoHist == [erases |-> 0, erase_oks |-> 0, wcalls |-> 0, accepted |-> Zero32,
           eraser |-> NULL, programmed |-> {}]

\* the record of a public call, with the fields of the manager before it
Made(name, addr, data, size, ret, value, returned) ==
    [name |-> name, addr |-> addr, data |-> data, size |-> size,
     ret |-> ret, value |-> value, returned |-> returned,
     ops |-> m_operations, erased |-> m_was_erased, ptr |-> m_write_pointer,
     accepted |-> hist.accepted]

EraseOks(cs) ==
    Cardinality({i \in 1..Len(cs) : cs[i].fn = "erase_app" /\ cs[i].ret})

Ready == pc = "idle" /\ nops < MaxOps

\* a constructor that leaves m_was_erased and m_write_pointer as they are
STM32BootManager_keeps(operations) ==
    /\ Ready
    /\ m_operations' = operations
    /\ hist' = NoHist
    /\ last' = Made("construct", Zero32, "none", Zero32, TRUE, Zero32, TRUE)
    /\ calls' = NoCalls
    /\ nops' = nops + 1
    /\ UNCHANGED <<m_was_erased, m_write_pointer, have_table, table, flash, pc>>

\* STM32BootManager(BootOperations* operations = nullptr): a new instance
\* takes the place of the old one; the statics of calculate_crc stay
STM32BootManager(operations) ==
    /\ Ready
    /\ m_operations' = operations
    /\ m_was_erased' = FALSE
    /\ m_write_pointer' = U32(START_ADDRESS)
    /\ hist' = NoHist
    /\ last' = Made("construct", Zero32, "none", Zero32, TRUE, Zero32, TRUE)
    /\ calls' = NoCalls
    /\ nops' = nops + 1
    /\ UNCHANGED <<have_table, table, flash, pc>>

\* a rebinding that also starts the erase-before-write over
SetBootloaderOperations_resets(operations) ==
    /\ Ready
    /\ m_operations' = operations
    /\ m_was_erased' = FALSE
    /\ last' = Made("set_bootloader_operations", Zero32, operations, Zero32,
                     TRUE, Zero32, TRUE)
    /\ calls' = NoCalls
    /\ nops' = nops + 1
    /\ UNCHANGED <<m_write_pointer, have_table, table, flash, pc, hist>>

\* void set_bootloader_operations(BootOperations* operations); last.data
\* holds the table given
SetBootloaderOperations(operations) ==
    /\ Ready
    /\ m_operations' = operations
    /\ last' = Made("set_bootloader_operations", Zero32, operations, Zero32,
                     TRUE, Zero32, TRUE)
    /\ calls' = NoCalls
    /\ nops' = nops + 1
    /\ UNCHANGED <<m_was_erased, m_write_pointer, have_table, table, flash,
                   pc, hist>>

Read(address, size) ==
    /\ Ready
    /\ LET r == read(m_operations, address, size) IN
       /\ pc' = IF r.returned THEN "idle" ELSE "hung"
       /\ last' = Made("read", address, "dst", size, r.ret, Zero32, r.returned)
       /\ calls' = r.calls
    /\ nops' = nops + 1
    /\ UNCHANGED <<m_operations, m_was_erased, m_write_pointer, have_table,
                   table, flash, hist>>

Write(start, data, size, eraseOk, writeOk) ==
    /\ Ready
    /\ LET r == write(m_operations, m_was_erased, start, data, size,
                      eraseOk, writeOk) IN
       /\ m_was_erased' = r.was_erased
       /\ last' = Made("write", start, data, size, r.ret, Zero32, TRUE)
       /\ calls' = r.calls
       /\ hist' = [hist EXCEPT !.erases = @ + Count(r.calls, "erase_app"),
                               !.erase_oks = @ + EraseOks(r.calls),
                               !.wcalls = @ + 1,
                               !.eraser = IF EraseOks(r.calls) > 0
                                          THEN m_operations ELSE @]
    /\ nops' = nops + 1
    /\ UNCHANGED <<m_operations, m_write_pointer, have_table, table, flash, pc>>

WriteContinously(buffer, size, eraseOk, writeOk) ==
    /\ Ready
    /\ LET r == write_continously(m_operations, m_was_erased, m_write_pointer,
                                  buffer, size, eraseOk, writeOk) IN
       /\ m_was_erased' = r.was_erased
       /\ m_write_pointer' = r.ptr
       /\ last' = Made("write_continously", Zero32, buffer, size, r.ret,
                         Zero32, TRUE)
       /\ calls' = r.calls
       /\ hist' = [hist EXCEPT !.erases = @ + Count(r.calls, "erase_app"),
                               !.erase_oks = @ + EraseOks(r.calls),
                               !.wcalls = @ + 1,
                               !.accepted = IF r.ret THEN Add32(@, size) ELSE @,
                               !.eraser = IF EraseOks(r.calls) > 0
                                          THEN m_operations ELSE @]
    /\ nops' = nops + 1
    /\ UNCHANGED <<m_operations, have_table, table, flash, pc>>

JumpToApp ==
    /\ Ready
    /\ LET r == jump_to_app(m_operations, flash) IN
       /\ pc' = IF r.returned THEN "idle" ELSE "jumped"
       /\ last' = Made("jump_to_app", Zero32, "none", Zero32, TRUE, Zero32,
                     r.returned)
       /\ calls' = r.calls
    /\ nops' = nops + 1
    /\ UNCHANGED <<m_operations, m_was_erased, m_write_pointer, have_table,
                   table, flash, hist>>

\* a calculate_crc that puts the cursor back to START_ADDRESS
CalculateCrc_rewinds ==
    /\ Ready
    /\ LET r == calculate_crc(m_operations, have_table, table, flash) IN
       /\ have_table' = r.have_table
       /\ table' = r.table
       /\ last' = Made("calculate_crc", Zero32, "none", Zero32, TRUE, r.ret, TRUE)
       /\ calls' = r.calls
    /\ m_write_pointer' = U32(START_ADDRESS)
    /\ nops' = nops + 1
    /\ UNCHANGED <<m_operations, m_was_erased, flash, pc, hist>>

CalculateCrc ==
    /\ Ready
    /\ LET r == calculate_crc(m_operations, have_table, table, flash) IN
       /\ have_table' = r.have_table
       /\ table' = r.table
       /\ last' = Made("calculate_crc", Zero32, "none", Zero32, TRUE, r.ret, TRUE)
       /\ calls' = r.calls
    /\ nops' = nops + 1
    /\ UNCHANGED <<m_operations, m_was_erased, m_write_pointer, flash, pc, hist>>

(* ---------------------------- specifications --------------------------- *)

\* the state after `STM32BootManager manager(operations);`
Fresh(operations) ==
    /\ m_operations = operations
    /\ m_was_erased = FALSE
    /\ m_write_pointer = U32(START_ADDRESS)
    /\ have_table = FALSE
    /\ table = ZeroTable
    /\ pc = "idle"
    /\ last = [name |-> "construct", addr |-> Zero32, data |-> "none",
               size |-> Zero32, ret |-> TRUE, value |-> Zero32,
               returned |-> TRUE, ops |-> operations, erased |-> FALSE,
               ptr |-> U32(START_ADDRESS), accepted |-> Zero32]
    /\ calls = NoCalls
    /\ hist = NoHist
    /\ nops = 0

Init ==
    /\ flash = BootImage
    /\ \E operations \in Bindings : Fresh(operations)

Next ==
    \/ \E operations \in Bindings : STM32BootManager(operations)
    \/ \E operations \in Bindings : SetBootloaderOperations(operations)
    \/ \E address \in ReadAddrs, size \in ReadSizes : Read(address, size)
    \/ \E start \in WriteStarts, data \in Buffers, size \in WriteSizes,
          eraseOk \in BOOLEAN, writeOk \in BOOLEAN :
            Write(start, data, size, eraseOk, writeOk)
    \/ \E buffer \in Buffers, size \in WriteSizes,
          eraseOk \in BOOLEAN, writeOk \in BOOLEAN :
            WriteContinously(buffer, size, eraseOk, writeOk)
    \/ JumpToApp
    \/ CalculateCrc

Spec == Init /\ [][Next]_vars

\* calculate_crc over every flash image, from every state a short run of
\* the manager reaches
InitCrc ==
    /\ flash \in Images
    /\ \E operations \in Bindings : Fresh(operations)

NextCrc ==
    \/ CalculateCrc
    \/ \E operations \in Bindings : SetBootloaderOperations(operations)
    \/ \E eraseOk \in BOOLEAN, writeOk \in BOOLEAN :
            WriteContinously("bufA", U32(4), eraseOk, writeOk)

SpecCrc == InitCrc /\ [][NextCrc]_vars

(* ------------------------------ properties ----------------------------- *)

WriteOps == {"write", "write_continously"}

Bound == last.ops # NULL

\* erase_app calls of this instance before the latest public call
ErasesBefore == hist.erases - Count(calls, "erase_app")
EraseOksBefore == hist.erase_oks - EraseOks(calls)

\* the latest public call made an erase_app call that returned false
EraseFailedNow ==
    /\ last.name \in WriteOps
    /\ \E i \in 1..Len(calls) : calls[i].fn = "erase_app" /\ ~calls[i].ret

\* C1 as stated: over any mix of successes and failures one instance
\* invokes the capability's erase_app at most once in its lifetime.
C1_EraseInvokedAtMostOnce == hist.erases <= 1

\* C1, amended: erase_app is invoked at most once per write /
\* write_continously call and only while the erase flag is false; it
\* returns true at most once per instance, and once it has the flag is set
\* and no later call of the instance invokes it.
C1_EraseSucceedsAtMostOnce ==
    /\ hist.erase_oks <= 1
    /\ (hist.erase_oks = 1) => m_was_erased
    /\ last.name \in WriteOps =>
         /\ Count(calls, "erase_app") <= 1
         /\ last.erased => Count(calls, "erase_app") = 0
         /\ EraseOksBefore = 1 => Count(calls, "erase_app") = 0
    /\ last.name \notin WriteOps => Count(calls, "erase_app") = 0

\* a failed erase, a successful one, then a write that erases nothing
C1_Witness ==
    /\ hist.erases = 2
    /\ hist.erase_oks = 1
    /\ last.name \in WriteOps
    /\ last.erased
    /\ last.ret
    /\ Count(calls, "write") = 1

\* C2: a failed automatic erase makes the call return false without a
\* capability write and without a second erase, leaves flag and cursor as
\* they were, and the next write / write_continously call with a
\* capability bound erases again.
C2_EraseFailure ==
    /\ EraseFailedNow =>
         /\ ~last.ret
         /\ Count(calls, "write") = 0
         /\ Count(calls, "erase_app") = 1
         /\ ~m_was_erased
         /\ m_write_pointer = last.ptr
    /\ (last.name \in WriteOps /\ Bound /\ ErasesBefore >= 1
        /\ EraseOksBefore = 0) =>
         /\ ~last.erased
         /\ Count(calls, "erase_app") = 1

\* two calls in a row whose erase failed
C2_Witness ==
    /\ EraseFailedNow
    /\ ErasesBefore = 1
    /\ hist.erase_oks = 0
    /\ ~m_was_erased

\* C3: write_continously hands the capability's write the address
\* START_ADDRESS + (sizes of the earlier calls that returned true), in
\* uint32_t arithmetic, and a call that returns false leaves the cursor.
C3_CursorIsSumOfAccepted ==
    /\ m_write_pointer = Add32(U32(START_ADDRESS), hist.accepted)
    /\ last.name = "write_continously" =>
         /\ \A i \in 1..Len(calls) :
              calls[i].fn = "write" =>
                calls[i].addr = Add32(U32(START_ADDRESS), last.accepted)
         /\ ~last.ret => m_write_pointer = last.ptr
         /\ last.ret => m_write_pointer = Add32(last.ptr, last.size)

\* the third call of 4, 8, ... is issued at START_ADDRESS + 12
C3_Witness ==
    /\ last.name = "write_continously"
    /\ last.accepted = U32(12)
    /\ \E i \in 1..Len(calls) :
         calls[i].fn = "write" /\ calls[i].addr = U32(START_ADDRESS + 12)

\* C4: a new instance starts unerased with the cursor at START_ADDRESS
\* whatever the instance before it did, and its first write or
\* write_continously with a capability bound erases before it programs.
C4_FreshInstance ==
    /\ last.name = "construct" =>
         /\ ~m_was_erased
         /\ m_write_pointer = U32(START_ADDRESS)
    /\ (last.name \in WriteOps /\ hist.wcalls = 1) =>
         /\ ~last.erased
         /\ (last.name = "write_continously" =>
               last.ptr = U32(START_ADDRESS))
         /\ Bound =>
              /\ Len(calls) >= 3
              /\ calls[2].fn = "erase_app"
              /\ \A i \in 1..Len(calls) : calls[i].fn = "write" => i > 2

\* a construction over an instance that had erased and moved its cursor
C4_Witness ==
    /\ last.name = "construct"
    /\ last.erased
    /\ last.ptr # U32(START_ADDRESS)
    /\ ~m_was_erased
    /\ m_write_pointer = U32(START_ADDRESS)

\* C5: with no capability bound read, write, write_continously and
\* calculate_crc call nothing, touch no flash, leave flag and cursor alone
\* and return failure (false; 0 for calculate_crc).
C5_UnboundIsNoOp ==
    (last.name \in {"read", "write", "write_continously", "calculate_crc"}
     /\ ~Bound) =>
        /\ calls = NoCalls
        /\ last.returned
        /\ pc = "idle"
        /\ m_was_erased = last.erased
        /\ m_write_pointer = last.ptr
        /\ last.name # "calculate_crc" => ~last.ret
        /\ last.name = "calculate_crc" => last.value = Zero32

\* write_continously after the binding of an erased instance was removed
C5_Witness ==
    /\ last.name = "write_continously"
    /\ ~Bound
    /\ last.erased
    /\ ~last.ret

Transfer(cs) == \E i \in 1..Len(cs) : cs[i].fn = "branch"

\* some step of jump_to_app was made
JumpSteps(cs) ==
    \E i \in 1..Len(cs) :
        cs[i].fn \in {"deinit_peripherals", "load", "deinit_systick", "branch"}

\* C6 as stated: only jump_to_app transfers control, and every invocation
\* of jump_to_app does and never returns.
C6_JumpNeverReturns ==
    /\ last.name # "jump_to_app" => (~JumpSteps(calls) /\ pc # "jumped")
    /\ last.name = "jump_to_app" =>
         (~last.returned /\ pc = "jumped" /\ Transfer(calls))

\* C6, amended: only jump_to_app transfers control; invoked with a
\* capability bound it does and never returns; invoked with none bound it
\* returns at once having done nothing.
C6_JumpNeverReturnsWhenBound ==
    /\ last.name # "jump_to_app" => (~JumpSteps(calls) /\ pc # "jumped")
    /\ (last.name = "jump_to_app" /\ Bound) =>
         /\ ~last.returned
         /\ pc = "jumped"
         /\ calls[Len(calls)].fn = "branch"
    /\ (last.name = "jump_to_app" /\ ~Bound) =>
         (last.returned /\ pc = "idle" /\ calls = NoCalls)

\* a jump made after other calls, with a capability bound
C6_Witness ==
    /\ last.name = "jump_to_app"
    /\ Bound
    /\ pc = "jumped"
    /\ nops > 1

\* C7: jump_to_app with a capability bound does, in this order and once
\* each: deinit_peripherals, the load of the word at START_ADDRESS + 4,
\* deinit_systick, the branch to the loaded address; nothing else.
C7_JumpSequence ==
    (last.name = "jump_to_app" /\ Bound) =>
        /\ Fns(calls) = <<"deinit_peripherals", "load", "deinit_systick",
                          "branch">>
        /\ calls[1].by = last.ops
        /\ calls[2].addr = U32(START_ADDRESS + 4)
        /\ calls[3].by = last.ops
        /\ calls[4].addr = MemWord(flash, U32(START_ADDRESS + 4))

\* a jump to the entry address the image holds, 0x38373635
C7_Witness ==
    /\ last.name = "jump_to_app"
    /\ Bound
    /\ Len(calls) = 4
    /\ calls[4].addr = [hi |-> 14391, lo |-> 13877]

\* the bytes calculate_crc is to cover
SameWindow(f, g) ==
    \A i \in Offsets : i < FlashLen - METADATA_SIZE => f[i] = g[i]

\* C8: the value calculate_crc returns is the value it returns on every
\* image with the same bytes below END_ADDRESS - METADATA_SIZE, whatever
\* the cursor, the erase flag and the state of the table.
C8_CrcIgnoresMetadata ==
    (last.name = "calculate_crc" /\ Bound) =>
        \A g \in Images :
            SameWindow(flash, g) => crc_scan(build_table, g) = last.value

\* a scan on an erased instance whose image has a twin differing in the tail
C8_Witness ==
    /\ last.name = "calculate_crc"
    /\ Bound
    /\ m_was_erased
    /\ m_write_pointer # U32(START_ADDRESS)
    /\ \E g \in Images : g # flash /\ SameWindow(flash, g)

\* IEEE 802.3 CRC-32, bit by bit: reflected polynomial 0xEDB88320
IeeePoly == [hi |-> 60856, lo |-> 33568]

RECURSIVE IeeeBits(_, _)
IeeeBits(crc, k) ==
    IF k = 0 THEN crc
    ELSE IeeeBits(IF crc.lo % 2 = 1 THEN Xor32(Shr1(crc), IeeePoly)
                  ELSE Shr1(crc),
                  k - 1)

RECURSIVE IeeeBytes(_, _, _)
IeeeBytes(crc, bytes, i) ==
    IF i > Len(bytes) THEN crc
    ELSE LET c == IeeeBits([hi |-> crc.hi, lo |-> Xor(crc.lo, bytes[i])], 8)
         IN  IF c.hi < Half THEN IeeeBytes(c, bytes, i + 1) ELSE c

IeeeCrc32(bytes) == Not32(IeeeBytes(Not32(Zero32), bytes, 1))

\* the 256 remainders of the standard, one per byte value
IeeeTable == [i \in 0..255 |-> IeeeBits(U32(i), 8)]

Window(f) == [i \in 1..(FlashLen - METADATA_SIZE) |-> f[i - 1]]

Check9 == [i \in 1..9 |-> 48 + i]

\* C9: the table calculate_crc builds is the table of the standard, and
\* calculate_crc returns the bitwise IEEE 802.3 CRC-32 of the bytes it
\* scans; over "123456789" that is 0xCBF43926.
C9_CrcIsIeee ==
    /\ have_table => table = IeeeTable
    /\ (last.name = "calculate_crc" /\ Bound) =>
        /\ have_table
        /\ last.value = IeeeCrc32(Window(flash))
        /\ Window(flash) = Check9 => last.value = [hi |-> 52212, lo |-> 14630]

\* a scan of "123456789" that returned 0xCBF43926
C9_Witness ==
    /\ last.name = "calculate_crc"
    /\ Bound
    /\ Window(flash) = Check9
    /\ last.value = [hi |-> 52212, lo |-> 14630]

\* C10: write on an erased instance with a capability bound erases
\* nothing, calls the capability's write once with its own start, data and
\* size between unlock and lock, and returns what that call returned.
C10_WriteDelegates ==
    (last.name = "write" /\ last.erased /\ Bound) =>
        calls = << Plain(last.ops, "unlock"),
                   Call(last.ops, "write", last.addr, last.data, last.size,
                        last.ret),
                   Plain(last.ops, "lock") >>

\* a write the capability refused, on an erased instance
C10_Witness ==
    /\ last.name = "write"
    /\ last.erased
    /\ Bound
    /\ ~last.ret
    /\ Count(calls, "write") = 1

FlashOps == {"read", "write", "write_continously", "calculate_crc"}

\* C11: every read, write, write_continously and calculate_crc made with a
\* capability bound calls unlock exactly once and lock exactly once, the
\* write that erases first included.
C11_OneUnlockOneLock ==
    (last.name \in FlashOps /\ Bound) =>
        (Count(calls, "unlock") = 1 /\ Count(calls, "lock") = 1)

\* C12: set_bootloader_operations calls nothing and leaves cursor and erase
\* flag; the table it was given is the one bound afterwards, every other
\* call leaves the binding and calls only the table bound when it is made,
\* and an erased instance does not erase again through a new table.
C12_RebindTakesEffect ==
    /\ last.name = "set_bootloader_operations" =>
         /\ m_operations = last.data
         /\ calls = NoCalls
         /\ m_was_erased = last.erased
         /\ m_write_pointer = last.ptr
    /\ last.name \notin {"set_bootloader_operations", "construct"} =>
         /\ m_operations = last.ops
         /\ \A i \in 1..Len(calls) : calls[i].by \in {last.ops, "cpu"}
    /\ (last.name \in WriteOps /\ last.erased) =>
         Count(calls, "erase_app") = 0

\* a write through one table on an instance that another table erased
C12_Witness ==
    /\ last.name \in WriteOps
    /\ last.erased
    /\ Bound
    /\ hist.eraser \in Tables
    /\ hist.eraser # last.ops
    /\ Count(calls, "write") = 1
    /\ \A i \in 1..Len(calls) : calls[i].by = last.ops

\* C13: on one instance the cursor, a uint32_t, never goes back: after
\* every call it is at least what it was before the call and at least
\* START_ADDRESS, whatever 32-bit sizes are written.
C13_CursorOnlyForward ==
    /\ ~Less32(m_write_pointer, U32(START_ADDRESS))
    /\ last.name # "construct" => ~Less32(m_write_pointer, last.ptr)

\* C14: write_continously checks nothing against END_ADDRESS: on an erased
\* instance with a capability bound it hands cursor and size to the
\* capability's write whatever they are, and moves the cursor by the size
\* when that returns true; so the cursor can pass END_ADDRESS.
C14_NoBoundsCheck ==
    (last.name = "write_continously" /\ Bound /\ m_was_erased) =>
        /\ Count(calls, "write") = 1
        /\ \A i \in 1..Len(calls) :
             calls[i].fn = "write" =>
               (calls[i].addr = last.ptr /\ calls[i].size = last.size)
        /\ last.ret => m_write_pointer = Add32(last.ptr, last.size)

\* a successful chunk that ends beyond END_ADDRESS (without wrapping) and
\* leaves the cursor beyond it
C14_Witness ==
    /\ last.name = "write_continously"
    /\ last.ret
    /\ ~Less32(U32(END_ADDRESS), last.ptr)
    /\ Less32(last.ptr, m_write_pointer)
    /\ Less32(U32(END_ADDRESS), m_write_pointer)
    /\ \E i \in 1..Len(calls) :
         /\ calls[i].fn = "write"
         /\ Less32(U32(END_ADDRESS), Add32(calls[i].addr, calls[i].size))

\* C15: calculate_crc with a capability bound calls unlock, scans, calls
\* lock and nothing else, and leaves binding, erase flag and cursor, so
\* every later write or write_continously does what it would have done
\* without it.
C15_CrcLeavesManager ==
    (last.name = "calculate_crc" /\ Bound) =>
        /\ calls = << Plain(last.ops, "unlock"),
                      Call("cpu", "scan", U32(START_ADDRESS), "none",
                           crc_len, TRUE),
                      Plain(last.ops, "lock") >>
        /\ m_operations = last.ops
        /\ m_was_erased = last.erased
        /\ m_write_pointer = last.ptr
        /\ hist.accepted = last.accepted
        /\ pc = "idle"
        /\ \A b \in Buffers, s \in WriteSizes, e \in BOOLEAN, w \in BOOLEAN :
             /\ write_continously(m_operations, m_was_erased,
                                  m_write_pointer, b, s, e, w)
                = write_continously(last.ops, last.erased, last.ptr,
                                    b, s, e, w)
             /\ \A a \in WriteStarts :
                  write(m_operations, m_was_erased, a, b, s, e, w)
                  = write(last.ops, last.erased, a, b, s, e, w)

\* a scan made between writes, on an erased instance with a moved cursor
C15_Witness ==
    /\ last.name = "calculate_crc"
    /\ Bound
    /\ last.erased
    /\ m_write_pointer # U32(START_ADDRESS)
    /\ Len(calls) = 3

\* C16: read with a capability bound and a size that is a multiple of 4
\* returns true after unlock, a copy of exactly size bytes from address
\* and lock, and leaves cursor and erase flag.
C16_ReadCopiesAll ==
    (last.name = "read" /\ Bound /\ last.size.lo % 4 = 0) =>
        /\ last.returned
        /\ pc = "idle"
        /\ last.ret
        /\ calls = << Plain(last.ops, "unlock"),
                      Call("cpu", "copy", last.addr, "dst", last.size, TRUE),
                      Plain(last.ops, "lock") >>
        /\ m_was_erased = last.erased
        /\ m_write_pointer = last.ptr

\* unlock calls not yet matched by a lock after the first i entries
Unlocked(cs, i) ==
    Cardinality({j \in 1..i : cs[j].fn = "unlock"})
    - Cardinality({j \in 1..i : cs[j].fn = "lock"})

\* C20: in every read, write, write_continously and calculate_crc made
\* with a capability bound unlock is called only while locked and lock
\* only while unlocked, erase_app and write are called only while
\* unlocked, and the flash is locked when the call returns.
C20_LockDiscipline ==
    (last.name \in FlashOps /\ Bound) =>
        /\ \A i \in 1..Len(calls) :
             /\ calls[i].fn = "unlock" => Unlocked(calls, i - 1) = 0
             /\ calls[i].fn = "lock" => Unlocked(calls, i - 1) = 1
             /\ calls[i].fn \in {"erase_app", "write"} =>
                  Unlocked(calls, i - 1) = 1
        /\ last.returned => Unlocked(calls, Len(calls)) = 0

\* an erase that succeeded followed by a write that failed, in one call
C20_Witness ==
    /\ last.name \in WriteOps
    /\ Bound
    /\ ~last.ret
    /\ Fns(calls) = <<"unlock", "erase_app", "lock", "unlock", "write", "lock">>

(* ---------------------- the G0 capability table ------------------------ *)

\* the base of the flash bank, from which the HAL numbers pages, and the
\* number of pages of a bank that ends at END_ADDRESS
FLASH_BASE == 134217728
FLASH_PAGE_NB == 64

\* calls of the capability alone in one behaviour
G0Ops == 2

\* flash bytes held from START_ADDRESS on, enough for every chunk written
G0Len == 8 * (G0Ops + 3)

G0Table == "opsG0"
G0Sizes == {U32(4), U32(8), U32(12)}
G0Starts == {U32(START_ADDRESS), U32(START_ADDRESS + 8)}

\* what the programming of one call may meet: nothing, HAL_FLASH_Program
\* reporting an error at a unit, or a unit whose byte reads back changed
\* although HAL_FLASH_Program reported HAL_OK
NoFault == [kind |-> "none", unit |-> 0, byte |-> 0]
Faults ==
    {NoFault}
    \cup {[kind |-> "hal", unit |-> u, byte |-> 0] : u \in 0..1}
    \cup {[kind |-> "flip", unit |-> 0, byte |-> b] : b \in 0..1}
    \cup {[kind |-> "flip", unit |-> 1, byte |-> 7]}

\* values a read beyond the end of the caller's buffer may give
JunkVals == {0, 238}

\* byte k of a caller's buffer
BufByte(buffer, k) == (IF buffer = "bufA" THEN 16 ELSE 96) + k

\* data[k] for a buffer of size bytes: beyond it, whatever lies there
SrcByte(buffer, size, k, junk) ==
    IF Less32(U32(k), size) THEN BufByte(buffer, k) ELSE junk

\* the page a modelled flash byte lies in
PageOf(off) == ((START_ADDRESS - FLASH_BASE) + off) \div PAGE_SIZE

\* HAL_FLASHEx_Erase of pages page .. page + nb - 1
hal_erase(mem, page, nb, ok) ==
    IF ok
    THEN [o \in DOMAIN mem |->
            IF PageOf(o) >= page /\ PageOf(o) < page + nb THEN 255 ELSE mem[o]]
    ELSE mem

\* op.erase_app of G0_Operations
g0_erase_app(halOk) ==
    LET page == (END_ADDRESS - START_ADDRESS) \div PAGE_SIZE
        nb == FLASH_PAGE_NB - page
    IN [ret |-> halOk, page |-> page, nb |-> nb,
        calls |-> << Call("hal", "HAL_FLASHEx_Erase", U32(page), "none",
                          U32(nb), halOk) >>]

\* HAL_FLASH_Program(FLASH_TYPEPROGRAM_DOUBLEWORD, ...) of the 8 bytes src
\* at offset off
hal_program(mem, off, src, fault) ==
    IF fault.kind = "hal" THEN mem
    ELSE [o \in DOMAIN mem |->
            IF o >= off /\ o < off + 8
            THEN IF fault.kind = "flip" /\ o - off = fault.byte
                 THEN (src[o - off] + 1) % 256
                 ELSE src[o - off]
            ELSE mem[o]]

\* the loop of op.write of G0_Operations, at `i` with `address` advanced
RECURSIVE g0_write_loop(_, _, _, _, _, _, _, _)
g0_write_loop(mem, address, buffer, size, junk, fault, i, log) ==
    IF Less32(i, size)
    THEN LET off == Sub32(address, U32(START_ADDRESS)).lo
             src == [b \in 0..7 |-> SrcByte(buffer, size, i.lo + b, junk)]
             here == IF fault.unit = i.lo \div 8 THEN fault ELSE NoFault
             ok == here.kind # "hal"
             mem1 == hal_program(mem, off, src, here)
             log1 == log \o
                     << Call("cpu", "load", i, buffer, U32(8), TRUE),
                        Call("hal", "HAL_FLASH_Program", address, buffer,
                             U32(8), ok) >>
         IN IF ok
            THEN IF mem1[off] # src[0]
                 THEN [ret |-> FALSE, mem |-> mem1, calls |-> log1]
                 ELSE g0_write_loop(mem1, Add32(address, U32(8)), buffer,
                                    size, junk, fault, Add32(i, U32(8)), log1)
            ELSE [ret |-> FALSE, mem |-> mem1, calls |-> log1]
    ELSE [ret |-> TRUE, mem |-> mem, calls |-> log]

\* op.write of G0_Operations
g0_write(mem, address, buffer, size, junk, fault) ==
    g0_write_loop(mem, address, buffer, size, junk, fault, Zero32, NoCalls)

\* the calls of the manager with those the capability made in their place
RECURSIVE Inline(_, _, _)
Inline(cs, ecalls, wcalls) ==
    IF cs = << >> THEN << >>
    ELSE << Head(cs) >>
         \o (IF Head(cs).fn = "erase_app" THEN ecalls
             ELSE IF Head(cs).fn = "write" THEN wcalls ELSE << >>)
         \o Inline(Tail(cs), ecalls, wcalls)

\* the calls of HAL_FLASH_Program that programmed, by position in cs
Units(cs) ==
    {k \in 1..Len(cs) : cs[k].fn = "HAL_FLASH_Program" /\ cs[k].ret}

\* offset from START_ADDRESS of the unit programmed by cs[k]
UnitOff(cs, k) == Sub32(cs[k].addr, U32(START_ADDRESS)).lo

\* the flash bytes the calls cs programmed
Programmed(cs) ==
    UNION {UnitOff(cs, k)..(UnitOff(cs, k) + 7) : k \in Units(cs)}

ReadyG0 == pc = "idle" /\ nops < G0Ops

\* G0_Operations()->erase_app()
G0EraseApp(halOk) ==
    /\ ReadyG0
    /\ LET e == g0_erase_app(halOk) IN
       /\ flash' = hal_erase(flash, e.page, e.nb, halOk)
       /\ last' = Made("g0_erase_app", Zero32, "none", Zero32, e.ret, Zero32,
                       TRUE)
       /\ calls' = e.calls
    /\ hist' = [hist EXCEPT !.programmed = {}]
    /\ nops' = nops + 1
    /\ UNCHANGED <<m_operations, m_was_erased, m_write_pointer, have_table,
                   table, pc>>

\* G0_Operations()->write(address, data, size)
G0Write(address, data, size, junk, fault) ==
    /\ ReadyG0
    /\ LET w == g0_write(flash, address, data, size, junk, fault) IN
       /\ flash' = w.mem
       /\ last' = Made("g0_write", address, data, size, w.ret, U32(junk), TRUE)
       /\ calls' = w.calls
    /\ hist' = [hist EXCEPT !.programmed = {}]
    /\ nops' = nops + 1
    /\ UNCHANGED <<m_operations, m_was_erased, m_write_pointer, have_table,
                   table, pc>>

\* write_continously(buffer, size) of a manager bound to G0_Operations();
\* hist.programmed holds the flash bytes programmed by the accepted chunks of
\* the write_continously calls that came directly before this one
G0WriteContinously(buffer, size, junk, fault, halOk) ==
    /\ ReadyG0
    /\ m_operations = G0Table
    /\ LET e == g0_erase_app(halOk)
           mem1 == IF m_was_erased THEN flash
                   ELSE hal_erase(flash, e.page, e.nb, halOk)
           w == g0_write(mem1, m_write_pointer, buffer, size, junk, fault)
           r == write_continously(m_operations, m_was_erased, m_write_pointer,
                                  buffer, size, e.ret, w.ret)
       IN
       /\ flash' = IF Count(r.calls, "write") > 0 THEN w.mem ELSE mem1
       /\ m_was_erased' = r.was_erased
       /\ m_write_pointer' = r.ptr
       /\ last' = Made("g0_write_continously", Zero32, buffer, size, r.ret,
                       U32(junk), TRUE)
       /\ calls' = Inline(r.calls, e.calls, w.calls)
       /\ hist' = [hist EXCEPT !.erases = @ + Count(r.calls, "erase_app"),
                               !.erase_oks = @ + EraseOks(r.calls),
                               !.wcalls = @ + 1,
                               !.accepted = IF r.ret THEN Add32(@, size) ELSE @,
                               !.eraser = IF EraseOks(r.calls) > 0
                                          THEN m_operations ELSE @,
                               !.programmed =
                                   IF last.name = "g0_write_continously"
                                      /\ last.ret
                                   THEN @ \cup Programmed(calls) ELSE @]
    /\ nops' = nops + 1
    /\ UNCHANGED <<m_operations, have_table, table, pc>>

\* a manager constructed on G0_Operations(), over flash holding an old image
InitG0 ==
    /\ flash = [o \in 0..(G0Len - 1) |-> 0]
    /\ Fresh(G0Table)

NextG0 ==
    \/ \E halOk \in BOOLEAN : G0EraseApp(halOk)
    \/ \E address \in G0Starts, size \in G0Sizes, junk \in JunkVals,
          fault \in Faults :
            G0Write(address, "bufA", size, junk, fault)
    \/ \E size \in G0Sizes, junk \in JunkVals, fault \in Faults,
          halOk \in BOOLEAN :
            G0WriteContinously("bufA", size, junk, fault, halOk)

SpecG0 == InitG0 /\ [][NextG0]_vars

\* ---- C17 ----
\* C17: the erase of the G0 table asks the HAL for a page range that begins
\* at the page containing START_ADDRESS and covers every page of
\* [START_ADDRESS, END_ADDRESS), and reports success exactly when the HAL
\* reports HAL_OK; after a successful erase the application region is erased.
C17_EraseCoversRegion ==
    last.name = "g0_erase_app" =>
        /\ Len(calls) = 1
        /\ calls[1].fn = "HAL_FLASHEx_Erase"
        /\ calls[1].addr = U32((START_ADDRESS - FLASH_BASE) \div PAGE_SIZE)
        /\ calls[1].addr.lo + calls[1].size.lo
              >= (END_ADDRESS - FLASH_BASE) \div PAGE_SIZE
        /\ last.ret => calls[1].ret
        /\ last.ret => \A o \in DOMAIN flash : flash[o] = 255

\* ---- C18 ----
\* the calls of HAL_FLASH_Program, by position in calls
ProgCalls == {k \in 1..Len(calls) : calls[k].fn = "HAL_FLASH_Program"}

\* the unit of calls[k] was programmed and all its 8 bytes read back from
\* flash equal the source bytes loaded for it
UnitGood(k) ==
    /\ calls[k].ret
    /\ \A b \in 0..7 :
          flash[UnitOff(calls, k) + b]
            = SrcByte(last.data, last.size, calls[k - 1].addr.lo + b,
                      last.value.lo)

\* C18: the write of the G0 table returns true only if every 8-byte unit it
\* programmed reads back equal to its source bytes in all bytes, and returns
\* false at the first unit that mismatches or whose programming reports a
\* fault, programming no later unit.
C18_WriteVerifiesUnits ==
    last.name = "g0_write" =>
        /\ last.ret => \A k \in ProgCalls : UnitGood(k)
        /\ ~last.ret =>
              \E k \in ProgCalls :
                  /\ ~UnitGood(k)
                  /\ \A j \in ProgCalls : j <= k /\ (j < k => UnitGood(j))

\* ---- C19 ----
\* the address a call of the G0 write was given
G0Address ==
    IF last.name = "g0_write" THEN last.addr ELSE last.ptr

\* C19: the write of the G0 table programs no flash byte outside
\* [address, address + length) and reads no source byte outside
\* [data, data + length), for every length, so that consecutive
\* write_continously calls program disjoint flash ranges.
C19_WriteExactLength ==
    last.name \in {"g0_write", "g0_write_continously"} =>
        /\ \A o \in Programmed(calls) :
              /\ o >= Sub32(G0Address, U32(START_ADDRESS)).lo
              /\ o < Sub32(G0Address, U32(START_ADDRESS)).lo + last.size.lo
        /\ \A k \in 1..Len(calls) :
              calls[k].fn = "load" =>
                  calls[k].addr.lo + calls[k].size.lo <= last.size.lo
        /\ last.name = "g0_write_continously" =>
              Programmed(calls) \cap hist.programmed = {}

==========================================================================
